---- MODULE Spec2Model ----
(***************************************************************************)
(* TimeGPT: the fetch-wrapping Interceptor (MAIN world), the postMessage   *)
(* channel of the page's window, and the Presenter (content script,        *)
(* ISOLATED world) that merges the broadcast batches.                      *)
(***************************************************************************)
EXTENDS FiniteSets, Integers, Sequences, TLC

(***************************************************************************)
(* Bounds of the model.                                                    *)
(***************************************************************************)
MaxUrlTokens == 2      \* a URL is the concatenation of at most so many tokens
MaxCalls == 1          \* intercepted fetch calls per behaviour
MaxForeign == 1        \* messages posted by a window of another origin
MaxSettings == 1       \* preference changes written by the options popup
MaxNodes == 2          \* mapping nodes of a generated conversation-detail body
MaxItems == 2          \* items of a generated conversation-list body

(***************************************************************************)
(* JavaScript values.  undefined and null are kept apart; every JSON       *)
(* scalar is a string token, so that "0" is a number that is falsy and     *)
(* "" a string that is falsy, as in the source.                            *)
(***************************************************************************)
Absent == "<undefined>"
Null == "<null>"

Nullish(v) == v \in {Absent, Null}
Truthy(v) == v \notin {Absent, Null, "", "0"}

\* the empty object {}
EmptyObj == [k \in {} |-> Null]

\* Object.assign(target, source): overwrite by key, keep every other key
ObjectAssignReplace(target, source) == source

ObjectAssign(target, source) ==
  [k \in (DOMAIN target) \cup (DOMAIN source) |->
     IF k \in DOMAIN source THEN source[k] ELSE target[k]]

(***************************************************************************)
(* URLs are strings: sequences of characters.                              *)
(***************************************************************************)
BackendApi == <<"/", "b", "a", "c", "k", "e", "n", "d", "-", "a", "p", "i">>
ConversationSeg == <<"/", "c", "o", "n", "v", "e", "r", "s", "a", "t", "i", "o", "n">>

DetailPrefix == BackendApi \o ConversationSeg \o <<"/">>
LimitLit == DetailPrefix \o <<"l", "i", "m", "i", "t">>
ListLit == BackendApi \o ConversationSeg \o <<"s">>
StreamLit == BackendApi \o <<"/", "f">> \o ConversationSeg

\* the character class [0-9a-f-]
HexDash == {"0", "1", "2", "3", "4", "5", "6", "7", "8", "9",
            "a", "b", "c", "d", "e", "f", "-"}

\* the quantifier {20,}
MinIdLen == 20

\* s has the literal lit at position i
HasAt(s, i, lit) ==
  /\ i >= 1
  /\ i + Len(lit) - 1 <= Len(s)
  /\ SubSeq(s, i, i + Len(lit) - 1) = lit

\* String.prototype.includes
Includes(s, lit) == \E i \in 1..Len(s) : HasAt(s, i, lit)

\* /\/backend-api\/conversation\/[0-9a-f-]{20,}/.test(url)
DetailPattern(url) ==
  \E i \in 1..Len(url) :
    /\ HasAt(url, i, DetailPrefix)
    /\ i + Len(DetailPrefix) + MinIdLen - 1 <= Len(url)
    /\ \A k \in 0..(MinIdLen - 1) : url[i + Len(DetailPrefix) + k] \in HexDash

\* the condition of the conversation-detail branch
IsDetail(url) ==
  /\ DetailPattern(url)
  /\ ~Includes(url, LimitLit)
  /\ ~Includes(url, ListLit)

\* /\/backend-api\/conversations(\?|$)/.test(url)
IsList(url) ==
  \E i \in 1..Len(url) :
    /\ HasAt(url, i, ListLit)
    /\ \/ i + Len(ListLit) = Len(url) + 1
       \/ url[i + Len(ListLit)] = "?"

\* /\/backend-api\/f\/conversation$/.test(url)
IsStreamUrl(url) == HasAt(url, Len(url) - Len(StreamLit) + 1, StreamLit)

(***************************************************************************)
(* JSON documents, as far as the extraction code looks into them.          *)
(*   message : tag "absent" | "null" | "object", id, create_time and       *)
(*             author_role (msg.author?.role), each Absent, Null or token  *)
(*   node    : tag "null" | "object", message                              *)
(*   data    : top "null" | "object", mapping (tag, entries in             *)
(*             Object.entries order), items (tag, elems)                   *)
(***************************************************************************)
NoMessage == [tag |-> "absent", id |-> Absent, create_time |-> Absent, author_role |-> Absent]
NullMessage == [tag |-> "null", id |-> Absent, create_time |-> Absent, author_role |-> Absent]
Message(id, t, r) == [tag |-> "object", id |-> id, create_time |-> t, author_role |-> r]

NullNode == [tag |-> "null", message |-> NoMessage]
Node(msg) == [tag |-> "object", message |-> msg]

Item(id, c, u, t) == [tag |-> "object", id |-> id, create_time |-> c, update_time |-> u, title |-> t]
NullItem == [tag |-> "null", id |-> Absent, create_time |-> Absent, update_time |-> Absent, title |-> Absent]

NoMapping == [tag |-> "absent", entries |-> <<>>]
NullMapping == [tag |-> "null", entries |-> <<>>]
Mapping(entries) == [tag |-> "object", entries |-> entries]

NoItems == [tag |-> "absent", elems |-> <<>>]
NotAnArray == [tag |-> "object", elems |-> <<>>]
Items(elems) == [tag |-> "array", elems |-> elems]

JsonNull == [top |-> "null", mapping |-> NoMapping, items |-> NoItems]
JsonObject(mapping, items) == [top |-> "object", mapping |-> mapping, items |-> items]

\* types.ts: MessageTimestamp and ConversationTimestamp
MessageTimestamp(msg) ==
  [createTime |-> msg.create_time,
   role |-> IF Truthy(msg.author_role) THEN msg.author_role ELSE Null]

ConversationTimestamp(item) ==
  [createTime |-> item.create_time,
   updateTime |-> IF Truthy(item.update_time) THEN item.update_time ELSE Null,
   title |-> IF Truthy(item.title) THEN item.title ELSE Null]

\* timestamps[msg.id] = ...
Put(obj, key, val) == ObjectAssign(obj, [k \in {key} |-> val])

NoExtraction == [threw |-> FALSE, entries |-> EmptyObj, count |-> 0]

\* if (!msg?.id || msg.create_time == null) continue;
SkipsMessageNullTimeOnly(msg) ==
  \/ msg.tag # "object"
  \/ Nullish(msg.create_time)

SkipsMessage(msg) ==
  \/ msg.tag # "object"
  \/ ~Truthy(msg.id)
  \/ Nullish(msg.create_time)

\* the loop of extractMessageTimestamps over Object.entries(data.mapping);
\* reading node.message of a null node throws
RECURSIVE MessageLoopBreaks(_, _)
MessageLoopBreaks(entries, acc) ==
  IF entries = <<>> THEN acc
  ELSE LET node == Head(entries) IN
       IF node.tag = "null" THEN [acc EXCEPT !.threw = TRUE]
       ELSE IF SkipsMessage(node.message) THEN acc
       ELSE MessageLoopBreaks(Tail(entries),
              [acc EXCEPT !.entries = Put(@, node.message.id, MessageTimestamp(node.message)),
                          !.count = @ + 1])

RECURSIVE MessageLoop(_, _)
MessageLoop(entries, acc) ==
  IF entries = <<>> THEN acc
  ELSE LET node == Head(entries) IN
       IF node.tag = "null" THEN [acc EXCEPT !.threw = TRUE]
       ELSE IF SkipsMessage(node.message) THEN MessageLoop(Tail(entries), acc)
       ELSE MessageLoop(Tail(entries),
              [acc EXCEPT !.entries = Put(@, node.message.id, MessageTimestamp(node.message)),
                          !.count = @ + 1])

\* if (!item.id || !item.create_time) continue;
SkipsItemWithoutIdOnly(item) == ~Truthy(item.id)

SkipsItem(item) == ~Truthy(item.id) \/ ~Truthy(item.create_time)

\* the loop of extractConversationTimestamps over data.items
RECURSIVE ConversationLoop(_, _)
ConversationLoop(elems, acc) ==
  IF elems = <<>> THEN acc
  ELSE LET item == Head(elems) IN
       IF item.tag = "null" THEN [acc EXCEPT !.threw = TRUE]
       ELSE IF SkipsItem(item) THEN ConversationLoop(Tail(elems), acc)
       ELSE ConversationLoop(Tail(elems),
              [acc EXCEPT !.entries = Put(@, item.id, ConversationTimestamp(item)),
                          !.count = @ + 1])

\* what extractMessageTimestamps(data) computes before it touches the buffer
MessageExtraction(data) ==
  IF data.top = "null" \/ data.mapping.tag # "object" THEN NoExtraction
  ELSE MessageLoop(data.mapping.entries, NoExtraction)

\* what extractConversationTimestamps(data) computes before it touches the buffer
ConversationExtraction(data) ==
  IF data.top = "null" \/ data.items.tag # "array" THEN NoExtraction
  ELSE ConversationLoop(data.items.elems, NoExtraction)

\* an extraction writes and posts only if it did not throw and count > 0
EffectiveWithoutCount(x) == ~x.threw

Effective(x) == ~x.threw /\ x.count > 0

(***************************************************************************)
(* Messages on the window's message channel.                               *)
(***************************************************************************)
SelfOrigin == "https://chatgpt.com"
OtherOrigin == "https://other.example"

TimestampsMsg(timestamps, drain) ==
  [origin |-> SelfOrigin, type |-> "TIMEGPT_TIMESTAMPS",
   timestamps |-> timestamps, conversations |-> EmptyObj, drain |-> drain]

ConversationsMsg(conversations, drain) ==
  [origin |-> SelfOrigin, type |-> "TIMEGPT_CONVERSATIONS",
   timestamps |-> EmptyObj, conversations |-> conversations, drain |-> drain]

DrainRequestMsg ==
  [origin |-> SelfOrigin, type |-> "TIMEGPT_DRAIN_REQUEST",
   timestamps |-> EmptyObj, conversations |-> EmptyObj, drain |-> FALSE]

(***************************************************************************)
(* Responses of the original fetch.  A body is JSON text, other text (an   *)
(* event stream is text that is not JSON) or missing; chunks are the       *)
(* pieces in which the network delivers its bytes.                         *)
(***************************************************************************)
NoBody == [kind |-> "none", json |-> JsonNull, chunks |-> <<>>]
JsonBody(data) == [kind |-> "json", json |-> data, chunks |-> << <<"J">> >>]
TextBody(chunks) == [kind |-> "text", json |-> JsonNull, chunks |-> chunks]

\* the content-type header, a string cut into tokens; <<>> is a missing header
NoContentType == <<>>
JsonContentType == <<"application/json">>
EventStreamLit == <<"text/event-stream">>
EventStreamContentType == <<"text/event-stream", ";", "charset=utf-8">>

Response(contentType, body) == [contentType |-> contentType, body |-> body]
NoResponse == Response(NoContentType, NoBody)

\* args[0] of the wrapper: a string, a Request, a URL or anything else
Forms == {"string", "Request", "URL", "other"}

Fetch(form, href, response) ==
  [form |-> form, href |-> href, rejects |-> FALSE, error |-> "none", response |-> response]
FailingFetch(form, href, error) ==
  [form |-> form, href |-> href, rejects |-> TRUE, error |-> error, response |-> NoResponse]

\* lines 17-29: the URL the wrapper classifies
ResolveUrl(request) ==
  IF request.form \in {"string", "Request", "URL"} THEN request.href ELSE <<>>

\* the condition of the live-stream branch
IsStream(url, response) ==
  /\ IsStreamUrl(url)
  /\ response.body.kind # "none"
  /\ Includes(response.contentType, EventStreamLit)

(***************************************************************************)
(* State.                                                                  *)
(***************************************************************************)
VARIABLES
  timestampBuffer,     \* Interceptor: id -> MessageTimestamp
  conversationBuffer,  \* Interceptor: id -> ConversationTimestamp
  calls,               \* the invocations of the wrapped fetch and where each stands
  taps,                \* the tapped stream of each invocation
  channel,             \* messages posted to the window, not yet dispatched
  started,             \* the content script has run
  timestampMap,        \* Presenter: id -> MessageTimestamp
  conversationMap,     \* Presenter: id -> ConversationTimestamp
  prefs,               \* Presenter: currentFormat, showMessages, showSidebar
  settingsRead,        \* the callback of chrome.storage.sync.get has run
  stored,              \* chrome.storage.sync
  drainsSent,          \* drain requests posted so far
  dom,                 \* ids that carry a rendered timestamp, per category
  lastBatch,           \* what the Presenter's listener did with the last message
  sent,                \* every (id, record) the Interceptor has posted, per category
  foreignPosts,        \* messages posted from another origin so far
  settingsWrites       \* preference changes written so far

vars == <<timestampBuffer, conversationBuffer, calls, taps, channel, started,
          timestampMap, conversationMap, prefs, settingsRead, stored, drainsSent,
          dom, lastBatch, sent, foreignPosts, settingsWrites>>

interceptorVars == <<timestampBuffer, conversationBuffer, calls, taps, sent>>
presenterVars == <<started, timestampMap, conversationMap, prefs, settingsRead,
                   drainsSent, dom, lastBatch>>
environmentVars == <<stored, foreignPosts, settingsWrites>>

\* the calls of a page, and one call more for the specification in which
\* calls race, so that two calls overlap whatever the bound
PageCalls == 1..MaxCalls
CallIds == 1..(MaxCalls + 1)

Pending == [kind |-> "pending", value |-> "none"]
Resolved(response) == [kind |-> "resolved", value |-> response]
Rejected(error) == [kind |-> "rejected", value |-> error]

IdleCall ==
  [pc |-> "idle", request |-> FailingFetch("other", <<>>, "none"), url |-> <<>>,
   branches |-> {}, writes |-> 0, posts |-> 0, result |-> Pending]

\* a tapped stream: chunks read from the underlying reader, the decoder's
\* pending bytes, the text buffer, the chunks enqueued for the host, and the
\* number of events that pull() had passed to processSSEEvent when it
\* enqueued the last chunk
NoTap ==
  [active |-> FALSE, reading |-> FALSE, pos |-> 0, pending |-> <<>>, buffer |-> <<>>,
   forwarded |-> <<>>, queued |-> 0, ended |-> FALSE, closed |-> FALSE,
   cancelled |-> FALSE, readerCancelled |-> FALSE, processedAtEnqueue |-> 0]

\* content.ts DEFAULTS
DEFAULTS ==
  [timestampFormat |-> "relative", showMessageTimestamps |-> TRUE,
   showSidebarTimestamps |-> TRUE]

\* what the Presenter's listener did with the last batch of a category: the
\* payload, whether it was a drain response, the listener's newCount,
\* whether it called the renderer, whether the payload repeated that of the
\* batch before, whether the map changed
NoBatch ==
  [seen |-> FALSE, payload |-> EmptyObj, drain |-> FALSE, newCount |-> 0,
   applied |-> FALSE, repeated |-> FALSE, changed |-> FALSE]

(***************************************************************************)
(* The wrapped fetch, window.fetch = async function (...args).             *)
(* A call runs from one await to the next without interruption.            *)
(***************************************************************************)

\* lines 59-73: the live-stream test and the two return statements
FromStreamCheck(call) ==
  IF IsStream(call.url, call.request.response)
  THEN [call EXCEPT !.pc = "done", !.branches = @ \cup {"stream"},
                    !.result = Resolved("tapped")]
  ELSE [call EXCEPT !.pc = "done", !.result = Resolved("original")]

\* lines 48-57: the conversation-list test, up to await cloned.json()
FromListCheck(call) ==
  IF IsList(call.url)
  THEN [call EXCEPT !.pc = "listJson", !.branches = @ \cup {"list"}]
  ELSE FromStreamCheck(call)

\* lines 33-46: the conversation-detail test, up to await cloned.json()
FromDetailCheck(call) ==
  IF IsDetail(call.url)
  THEN [call EXCEPT !.pc = "detailJson", !.branches = @ \cup {"detail"}]
  ELSE FromListCheck(call)

\* line 31 when originalFetch rejects: the await throws out of the wrapper
OnFetchRejectedSwallowed(call) == FromDetailCheck(call)

OnFetchRejected(call) ==
  [call EXCEPT !.pc = "done", !.result = Rejected(call.request.error)]

\* line 31 when originalFetch resolves
OnFetchResolved(call) == FromDetailCheck(call)

\* tapSSEStream(response): a fresh stream over response.body.getReader()
NewTap == [NoTap EXCEPT !.active = TRUE]

\* cloned.json(): the parsed document, or a rejection caught by the wrapper
JsonOf(response) ==
  IF response.body.kind = "json"
  THEN [ok |-> TRUE, data |-> response.body.json]
  ELSE [ok |-> FALSE, data |-> JsonNull]

\* the calls are numbered in the order in which the page makes them
FetchStart(c, pool) ==
  /\ calls[c].pc = "idle"
  /\ \A d \in CallIds : d < c => calls[d].pc # "idle"
  /\ \E request \in pool :
       calls' = [calls EXCEPT ![c] =
                   [IdleCall EXCEPT !.pc = "fetching", !.request = request,
                                    !.url = ResolveUrl(request)]]
  /\ UNCHANGED <<timestampBuffer, conversationBuffer, taps, sent, channel>>
  /\ UNCHANGED <<presenterVars, environmentVars>>

FetchRejected(c) ==
  /\ calls[c].pc = "fetching"
  /\ calls[c].request.rejects
  /\ calls' = [calls EXCEPT ![c] = OnFetchRejected(@)]
  /\ taps' = [taps EXCEPT ![c] = IF calls'[c].result = Resolved("tapped") THEN NewTap ELSE @]
  /\ UNCHANGED <<timestampBuffer, conversationBuffer, sent, channel>>
  /\ UNCHANGED <<presenterVars, environmentVars>>

FetchResolved(c) ==
  /\ calls[c].pc = "fetching"
  /\ ~calls[c].request.rejects
  /\ calls' = [calls EXCEPT ![c] = OnFetchResolved(@)]
  /\ taps' = [taps EXCEPT ![c] = IF calls'[c].result = Resolved("tapped") THEN NewTap ELSE @]
  /\ UNCHANGED <<timestampBuffer, conversationBuffer, sent, channel>>
  /\ UNCHANGED <<presenterVars, environmentVars>>

\* Object.assign(buffer, entries); window.postMessage({type, entries}, origin)
BroadcastWithoutMerge(x, buffer, msg) ==
  [buffer |-> buffer, assigns |-> 0, posts |-> IF Effective(x) THEN <<msg>> ELSE <<>>]

Broadcast(x, buffer, msg) ==
  IF Effective(x)
  THEN [buffer |-> ObjectAssign(buffer, x.entries), assigns |-> 1, posts |-> <<msg>>]
  ELSE [buffer |-> buffer, assigns |-> 0, posts |-> <<>>]

Pairs(obj) == {<<k, obj[k]>> : k \in DOMAIN obj}

\* lines 39-45: await cloned.json() settles, extractMessageTimestamps(json)
DetailJsonSettled(c) ==
  /\ calls[c].pc = "detailJson"
  /\ LET json == JsonOf(calls[c].request.response)
         x == IF json.ok THEN MessageExtraction(json.data) ELSE NoExtraction
         b == Broadcast(x, timestampBuffer, TimestampsMsg(x.entries, FALSE))
     IN /\ timestampBuffer' = b.buffer
        /\ channel' = channel \o b.posts
        /\ sent' = [sent EXCEPT !.timestamps =
                      IF b.posts # <<>> THEN @ \cup Pairs(x.entries) ELSE @]
        /\ calls' = [calls EXCEPT ![c] =
                       FromListCheck([@ EXCEPT !.posts = @ + Len(b.posts),
                                               !.writes = @ + b.assigns])]
  /\ taps' = [taps EXCEPT ![c] = IF calls'[c].result = Resolved("tapped") THEN NewTap ELSE @]
  /\ UNCHANGED conversationBuffer
  /\ UNCHANGED <<presenterVars, environmentVars>>

\* lines 50-56: await cloned.json() settles, extractConversationTimestamps(json)
ListJsonSettled(c) ==
  /\ calls[c].pc = "listJson"
  /\ LET json == JsonOf(calls[c].request.response)
         x == IF json.ok THEN ConversationExtraction(json.data) ELSE NoExtraction
         b == Broadcast(x, conversationBuffer, ConversationsMsg(x.entries, FALSE))
     IN /\ conversationBuffer' = b.buffer
        /\ channel' = channel \o b.posts
        /\ sent' = [sent EXCEPT !.conversations =
                      IF b.posts # <<>> THEN @ \cup Pairs(x.entries) ELSE @]
        /\ calls' = [calls EXCEPT ![c] =
                       FromStreamCheck([@ EXCEPT !.posts = @ + Len(b.posts),
                                                 !.writes = @ + b.assigns])]
  /\ taps' = [taps EXCEPT ![c] = IF calls'[c].result = Resolved("tapped") THEN NewTap ELSE @]
  /\ UNCHANGED timestampBuffer
  /\ UNCHANGED <<presenterVars, environmentVars>>

(***************************************************************************)
(* The tap on the live stream: tapSSEStream, processSSEBuffer,             *)
(* processSSEEvent, extractStreamTimestamp.                                *)
(***************************************************************************)

\* TextDecoder.decode(value, {stream: true}) for UTF-8, not fatal: "C3" "A9"
\* are the two bytes of one character, "FF" is never valid, every other
\* byte is the character of the same name
LeadByte == "C3"
ContByte == "A9"
BadByte == "FF"
TwoByteChar == "e-acute"
Replacement == "U+FFFD"

RECURSIVE DecodeLoop(_, _, _)
DecodeLoop(pending, bytes, text) ==
  IF bytes = <<>> THEN [text |-> text, pending |-> pending]
  ELSE LET b == Head(bytes) IN
       IF pending # <<>>
       THEN IF b = ContByte
            THEN DecodeLoop(<<>>, Tail(bytes), Append(text, TwoByteChar))
            ELSE DecodeLoop(<<>>, bytes, Append(text, Replacement))
       ELSE IF b = LeadByte THEN DecodeLoop(<<b>>, Tail(bytes), text)
       ELSE IF b \in {ContByte, BadByte}
            THEN DecodeLoop(<<>>, Tail(bytes), Append(text, Replacement))
       ELSE DecodeLoop(<<>>, Tail(bytes), Append(text, b))

Decode(pending, bytes) == DecodeLoop(pending, bytes, <<>>)

\* String.prototype.split with a string separator
FirstIndex(s, sep) ==
  IF Includes(s, sep)
  THEN CHOOSE i \in 1..Len(s) : HasAt(s, i, sep) /\ \A j \in 1..(i - 1) : ~HasAt(s, j, sep)
  ELSE 0

RECURSIVE Split(_, _)
Split(s, sep) ==
  LET i == FirstIndex(s, sep) IN
  IF i = 0 THEN <<s>>
  ELSE <<SubSeq(s, 1, i - 1)>> \o Split(SubSeq(s, i + Len(sep), Len(s)), sep)

NewLine == <<"\n">>
BlankLine == <<"\n", "\n">>
DataPrefix == <<"d", "a", "t", "a", ":", " ">>
DoneLit == <<"[", "D", "O", "N", "E", "]">>

\* lines 203-208: the payload of the last line that starts with "data: "
RECURSIVE LastDataLine(_, _)
LastDataLine(lines, jsonStr) ==
  IF lines = <<>> THEN jsonStr
  ELSE LET line == Head(lines) IN
       LastDataLine(Tail(lines),
                    IF HasAt(line, 1, DataPrefix)
                    THEN SubSeq(line, Len(DataPrefix) + 1, Len(line))
                    ELSE jsonStr)

\* the JSON documents the stream carries: "{" atom "}" is the text of the
\* object that StreamEvents gives for the atom; any other text is not JSON
StreamEvent(type, input, nested) == [type |-> type, input_message |-> input, v_message |-> nested]

StreamEvents ==
  [atom \in {"input:m2", "delta:m1", "delta:m2", "delta:null", "delta:noid", "both", "text"} |->
     CASE atom = "input:m2" ->
            StreamEvent("input_message", Message("m2", "1700000100", Absent), NoMessage)
       [] atom = "delta:m1" ->
            StreamEvent(Absent, NoMessage, Message("m1", "1700000200", "assistant"))
       [] atom = "delta:m2" ->
            StreamEvent(Absent, NoMessage, Message("m2", "1700000300", "user"))
       [] atom = "delta:null" ->
            StreamEvent(Absent, NoMessage, Message("m1", Null, "assistant"))
       [] atom = "delta:noid" ->
            StreamEvent(Absent, NoMessage, Message("", "1700000400", "assistant"))
       [] atom = "both" ->
            StreamEvent("input_message", Message("m2", "1700000100", Absent),
                        Message("m1", "1700000200", "assistant"))
       [] atom = "text" -> StreamEvent(Absent, NoMessage, NoMessage)]

JsonParse(text) ==
  IF Len(text) = 3 /\ text[1] = "{" /\ text[3] = "}" /\ text[2] \in DOMAIN StreamEvents
  THEN [ok |-> TRUE, data |-> StreamEvents[text[2]]]
  ELSE [ok |-> FALSE, data |-> StreamEvent(Absent, NoMessage, NoMessage)]

\* if (msg.id && msg.create_time != null) timestamps[msg.id] = {...}
PutMessage(timestamps, msg) ==
  IF msg.tag = "object" /\ Truthy(msg.id) /\ ~Nullish(msg.create_time)
  THEN Put(timestamps, msg.id, MessageTimestamp(msg))
  ELSE timestamps

\* what extractStreamTimestamp(data) computes before it touches the buffer
StreamExtraction(data) ==
  LET first == IF data.type = "input_message"
               THEN PutMessage(EmptyObj, data.input_message) ELSE EmptyObj
      timestamps == PutMessage(first, data.v_message)
  IN [threw |-> FALSE, entries |-> timestamps, count |-> Cardinality(DOMAIN timestamps)]

\* processSSEEvent(raw) up to the call of extractStreamTimestamp
EventExtraction(raw) ==
  LET jsonStr == LastDataLine(Split(raw, NewLine), <<>>)
      json == JsonParse(jsonStr)
  IN IF jsonStr = <<>> \/ jsonStr = DoneLit \/ ~json.ok THEN NoExtraction
     ELSE StreamExtraction(json.data)

\* for (const part of parts) processSSEEvent(part): each event that yields
\* entries is assigned to the buffer and posted on its own
RECURSIVE ProcessEvents(_, _)
ProcessEvents(parts, acc) ==
  IF parts = <<>> THEN acc
  ELSE LET x == EventExtraction(Head(parts))
           b == Broadcast(x, acc.buffer, TimestampsMsg(x.entries, FALSE))
       IN ProcessEvents(Tail(parts),
            [buffer |-> b.buffer, assigns |-> acc.assigns + b.assigns,
             posts |-> acc.posts \o b.posts])

\* new ReadableStream({pull, cancel}) has the default high-water mark
HighWaterMark == 1

\* line 176: controller.enqueue(value)
ForwardedChunkReencoded(value, text) == text

ForwardedChunk(value, text) == value

Chunks(c) == calls[c].request.response.body.chunks

PostedTimestamps(posts) == UNION {Pairs(posts[i].timestamps) : i \in 1..Len(posts)}

\* the stream asks for a chunk while its queue is below the high-water mark:
\* pull() runs up to await reader.read()
PullStart(c) ==
  /\ taps[c].active
  /\ ~taps[c].reading
  /\ ~taps[c].closed
  /\ ~taps[c].cancelled
  /\ taps[c].queued < HighWaterMark
  /\ taps' = [taps EXCEPT ![c].reading = TRUE]
  /\ UNCHANGED <<timestampBuffer, conversationBuffer, calls, sent, channel>>
  /\ UNCHANGED <<presenterVars, environmentVars>>

\* lines 166-176: reader.read() yields a chunk; the text is decoded and cut,
\* the complete events are processed, then the chunk is enqueued
ReadChunkDeferred(c) ==
  /\ taps[c].reading
  /\ ~taps[c].readerCancelled
  /\ taps[c].pos < Len(Chunks(c))
  /\ LET value == Chunks(c)[taps[c].pos + 1]
         decoded == Decode(taps[c].pending, value)
     IN taps' = [taps EXCEPT ![c] =
                   [@ EXCEPT !.reading = FALSE,
                             !.pos = @ + 1,
                             !.pending = decoded.pending,
                             !.buffer = @ \o decoded.text,
                             !.forwarded = Append(@, ForwardedChunk(value, decoded.text)),
                             !.queued = @ + 1,
                             !.processedAtEnqueue = 0]]
  /\ UNCHANGED <<timestampBuffer, conversationBuffer, calls, sent, channel>>
  /\ UNCHANGED <<presenterVars, environmentVars>>

ReadChunkForgetsTail(c) ==
  /\ taps[c].reading
  /\ ~taps[c].readerCancelled
  /\ taps[c].pos < Len(Chunks(c))
  /\ LET value == Chunks(c)[taps[c].pos + 1]
         decoded == Decode(taps[c].pending, value)
         parts == Split(decoded.text, BlankLine)
         events == SubSeq(parts, 1, Len(parts) - 1)
         r == ProcessEvents(events, [buffer |-> timestampBuffer, assigns |-> 0, posts |-> <<>>])
     IN /\ taps' = [taps EXCEPT ![c] =
                      [@ EXCEPT !.reading = FALSE,
                                !.pos = @ + 1,
                                !.pending = decoded.pending,
                                !.buffer = parts[Len(parts)],
                                !.forwarded = Append(@, ForwardedChunk(value, decoded.text)),
                                !.queued = @ + 1,
                                !.processedAtEnqueue = Len(events)]]
        /\ timestampBuffer' = r.buffer
        /\ channel' = channel \o r.posts
        /\ sent' = [sent EXCEPT !.timestamps = @ \cup PostedTimestamps(r.posts)]
        /\ calls' = [calls EXCEPT ![c].posts = @ + Len(r.posts),
                                  ![c].writes = @ + r.assigns]
  /\ UNCHANGED conversationBuffer
  /\ UNCHANGED <<presenterVars, environmentVars>>

ReadChunk(c) ==
  /\ taps[c].reading
  /\ ~taps[c].readerCancelled
  /\ taps[c].pos < Len(Chunks(c))
  /\ LET value == Chunks(c)[taps[c].pos + 1]
         decoded == Decode(taps[c].pending, value)
         parts == Split(taps[c].buffer \o decoded.text, BlankLine)
         events == SubSeq(parts, 1, Len(parts) - 1)
         r == ProcessEvents(events, [buffer |-> timestampBuffer, assigns |-> 0, posts |-> <<>>])
     IN /\ taps' = [taps EXCEPT ![c] =
                      [@ EXCEPT !.reading = FALSE,
                                !.pos = @ + 1,
                                !.pending = decoded.pending,
                                !.buffer = parts[Len(parts)],
                                !.forwarded = Append(@, ForwardedChunk(value, decoded.text)),
                                !.queued = @ + 1,
                                !.processedAtEnqueue = Len(events)]]
        /\ timestampBuffer' = r.buffer
        /\ channel' = channel \o r.posts
        /\ sent' = [sent EXCEPT !.timestamps = @ \cup PostedTimestamps(r.posts)]
        /\ calls' = [calls EXCEPT ![c].posts = @ + Len(r.posts),
                                  ![c].writes = @ + r.assigns]
  /\ UNCHANGED conversationBuffer
  /\ UNCHANGED <<presenterVars, environmentVars>>

\* lines 160-164: reader.read() reports the end of the underlying stream, or
\* the read was ended by reader.cancel(); controller.close() throws on a
\* cancelled stream and the rejection of pull() is dropped
ReadDone(c) ==
  /\ taps[c].reading
  /\ taps[c].readerCancelled \/ taps[c].pos = Len(Chunks(c))
  /\ LET parts == IF Len(taps[c].buffer) > 0 THEN Split(taps[c].buffer, BlankLine) ELSE <<>>
         r == ProcessEvents(parts, [buffer |-> timestampBuffer, assigns |-> 0, posts |-> <<>>])
     IN /\ taps' = [taps EXCEPT ![c] =
                      [@ EXCEPT !.reading = FALSE,
                                !.ended = TRUE,
                                !.closed = ~taps[c].cancelled]]
        /\ timestampBuffer' = r.buffer
        /\ channel' = channel \o r.posts
        /\ sent' = [sent EXCEPT !.timestamps = @ \cup PostedTimestamps(r.posts)]
        /\ calls' = [calls EXCEPT ![c].posts = @ + Len(r.posts),
                                  ![c].writes = @ + r.assigns]
  /\ UNCHANGED conversationBuffer
  /\ UNCHANGED <<presenterVars, environmentVars>>

\* the host application reads one chunk of the tapped stream
HostRead(c) ==
  /\ taps[c].active
  /\ ~taps[c].cancelled
  /\ taps[c].queued > 0
  /\ taps' = [taps EXCEPT ![c].queued = @ - 1]
  /\ UNCHANGED <<timestampBuffer, conversationBuffer, calls, sent, channel>>
  /\ UNCHANGED <<presenterVars, environmentVars>>

\* lines 178-180: the host cancels the tapped stream, cancel() runs
HostCancelWithoutReader(c) ==
  /\ taps[c].active
  /\ ~taps[c].cancelled
  /\ ~(taps[c].closed /\ taps[c].queued = 0)
  /\ taps' = [taps EXCEPT ![c] =
                [@ EXCEPT !.cancelled = TRUE, !.queued = 0]]
  /\ UNCHANGED <<timestampBuffer, conversationBuffer, calls, sent, channel>>
  /\ UNCHANGED <<presenterVars, environmentVars>>

HostCancel(c) ==
  /\ taps[c].active
  /\ ~taps[c].cancelled
  /\ ~(taps[c].closed /\ taps[c].queued = 0)
  /\ taps' = [taps EXCEPT ![c] =
                [@ EXCEPT !.cancelled = TRUE, !.queued = 0, !.readerCancelled = TRUE]]
  /\ UNCHANGED <<timestampBuffer, conversationBuffer, calls, sent, channel>>
  /\ UNCHANGED <<presenterVars, environmentVars>>

(***************************************************************************)
(* The Presenter (content.ts) and the window's message channel.            *)
(***************************************************************************)

\* requestDrain() is called at once, after 1000 ms and after 3000 ms
DrainRequests == 3

\* for (const [id, info] of Object.entries(batch)) map.set(id, info)
MapSetAllKeepOld(map, batch) ==
  [k \in (DOMAIN map) \cup (DOMAIN batch) |->
     IF k \in DOMAIN map THEN map[k] ELSE batch[k]]

MapSetAll(map, batch) ==
  [k \in (DOMAIN map) \cup (DOMAIN batch) |->
     IF k \in DOMAIN batch THEN batch[k] ELSE map[k]]

\* if (!map.has(id)) newCount++, counted before the id is set
NewCountAll(map, batch) == Cardinality(DOMAIN batch)

NewCount(map, batch) == Cardinality((DOMAIN batch) \ (DOMAIN map))

\* the origin test of the Presenter's listener (line 83)
PresenterAcceptsAnyOrigin(m) == TRUE

PresenterAccepts(m) == m.origin = SelfOrigin

\* the tests of the Interceptor's listener (lines 261-262)
InterceptorServesAnyOrigin(m) == m.type = "TIMEGPT_DRAIN_REQUEST"

InterceptorServes(m) == m.origin = SelfOrigin /\ m.type = "TIMEGPT_DRAIN_REQUEST"

\* lines 264-275: each buffer is posted whole if it is not empty
DrainResponseNothing == <<>>

DrainResponseBoth ==
  <<TimestampsMsg(timestampBuffer, TRUE), ConversationsMsg(conversationBuffer, TRUE)>>

DrainResponse ==
  (IF DOMAIN timestampBuffer # {} THEN <<TimestampsMsg(timestampBuffer, TRUE)>> ELSE <<>>)
    \o (IF DOMAIN conversationBuffer # {}
        THEN <<ConversationsMsg(conversationBuffer, TRUE)>> ELSE <<>>)

\* applyMessageTimestamps / applySidebarTimestamps: every element of the
\* document whose id is in the map gets a timestamp unless it has one; the
\* document shows every message and every conversation
ApplyTimestamps(rendered, map) == rendered \cup DOMAIN map

\* applyAll()
ApplyAll(d, p, tsMap, convMap) ==
  [messages |-> IF p.showMessages THEN ApplyTimestamps(d.messages, tsMap) ELSE d.messages,
   sidebar |-> IF p.showSidebar THEN ApplyTimestamps(d.sidebar, convMap) ELSE d.sidebar]

\* the content script runs at document_idle: storage.get is requested, the
\* listeners are registered, the first drain request is posted and the two
\* timers are set
PresenterStart ==
  /\ ~started
  /\ started' = TRUE
  /\ drainsSent' = 1
  /\ channel' = Append(channel, DrainRequestMsg)
  /\ UNCHANGED <<timestampMap, conversationMap, prefs, settingsRead, dom, lastBatch>>
  /\ UNCHANGED <<interceptorVars, environmentVars>>

\* setTimeout(requestDrain, 1000) and setTimeout(requestDrain, 3000) fire
DrainTimerUntilAnswered ==
  /\ started
  /\ drainsSent < DrainRequests \/ ~(lastBatch.timestamps.seen \/ lastBatch.conversations.seen)
  /\ drainsSent' = drainsSent + 1
  /\ channel' = Append(channel, DrainRequestMsg)
  /\ UNCHANGED <<started, timestampMap, conversationMap, prefs, settingsRead, dom, lastBatch>>
  /\ UNCHANGED <<interceptorVars, environmentVars>>

DrainTimer ==
  /\ started
  /\ drainsSent < DrainRequests
  /\ drainsSent' = drainsSent + 1
  /\ channel' = Append(channel, DrainRequestMsg)
  /\ UNCHANGED <<started, timestampMap, conversationMap, prefs, settingsRead, dom, lastBatch>>
  /\ UNCHANGED <<interceptorVars, environmentVars>>

\* lines 33-39: the callback of chrome.storage.sync.get
SettingsLoaded ==
  /\ started
  /\ ~settingsRead
  /\ settingsRead' = TRUE
  /\ prefs' = [currentFormat |-> stored.timestampFormat,
               showMessages |-> stored.showMessageTimestamps,
               showSidebar |-> stored.showSidebarTimestamps]
  /\ dom' = ApplyAll(dom, prefs', timestampMap, conversationMap)
  /\ UNCHANGED <<started, timestampMap, conversationMap, drainsSent, lastBatch, channel>>
  /\ UNCHANGED <<interceptorVars, environmentVars>>

\* lines 41-54: the listener of chrome.storage.onChanged, for one changed key
OnChanged(p, d, key, value) ==
  LET p1 == CASE key = "timestampFormat" -> [p EXCEPT !.currentFormat = value]
              [] key = "showMessageTimestamps" -> [p EXCEPT !.showMessages = value]
              [] key = "showSidebarTimestamps" -> [p EXCEPT !.showSidebar = value]
      d1 == [messages |-> IF key = "showMessageTimestamps" /\ ~p1.showMessages
                          THEN {} ELSE d.messages,
             sidebar |-> IF key = "showSidebarTimestamps" /\ ~p1.showSidebar
                         THEN {} ELSE d.sidebar]
  IN [prefs |-> p1, dom |-> ApplyAll(d1, p1, timestampMap, conversationMap)]

SettingValues(key) ==
  IF key = "timestampFormat" THEN {"relative", "iso"} ELSE BOOLEAN

\* popup.ts writes one preference; the content script, if it runs, is told
SettingsWrite ==
  /\ settingsWrites < MaxSettings
  /\ settingsWrites' = settingsWrites + 1
  /\ \E key \in DOMAIN DEFAULTS :
       \E value \in SettingValues(key) \ {stored[key]} :
         /\ stored' = [stored EXCEPT ![key] = value]
         /\ IF started
            THEN LET r == OnChanged(prefs, dom, key, value)
                 IN prefs' = r.prefs /\ dom' = r.dom
            ELSE UNCHANGED <<prefs, dom>>
  /\ UNCHANGED <<started, timestampMap, conversationMap, settingsRead, drainsSent,
                 lastBatch, channel, foreignPosts>>
  /\ UNCHANGED interceptorVars

\* lines 90-103 and 105-118: one batch is merged into the map of its category
MergeBatchWhateverPreference(map, payload, drain, show, rendered, last) ==
  LET newCount == NewCount(map, payload)
      merged == MapSetAll(map, payload)
      applied == newCount > 0
  IN [map |-> merged,
      rendered |-> IF applied THEN ApplyTimestamps(rendered, merged) ELSE rendered,
      batch |-> [seen |-> TRUE, payload |-> payload, drain |-> drain,
                 newCount |-> newCount, applied |-> applied,
                 repeated |-> last.seen /\ last.payload = payload,
                 changed |-> merged # map]]

MergeBatch(map, payload, drain, show, rendered, last) ==
  LET newCount == NewCount(map, payload)
      merged == MapSetAll(map, payload)
      applied == newCount > 0 /\ show
  IN [map |-> merged,
      rendered |-> IF applied THEN ApplyTimestamps(rendered, merged) ELSE rendered,
      batch |-> [seen |-> TRUE, payload |-> payload, drain |-> drain,
                 newCount |-> newCount, applied |-> applied,
                 repeated |-> last.seen /\ last.payload = payload,
                 changed |-> merged # map]]

\* the window dispatches the oldest posted message to its listeners: first
\* the Interceptor's (registered at document_start), then the Presenter's
Deliver ==
  /\ channel # <<>>
  /\ LET m == Head(channel)
         replies == IF InterceptorServes(m) THEN DrainResponse ELSE <<>>
     IN /\ channel' = Tail(channel) \o replies
        /\ sent' = [timestamps |-> sent.timestamps \cup
                                     UNION {Pairs(replies[i].timestamps) : i \in 1..Len(replies)},
                    conversations |-> sent.conversations \cup
                                     UNION {Pairs(replies[i].conversations) : i \in 1..Len(replies)}]
        /\ IF started /\ PresenterAccepts(m) /\ m.type = "TIMEGPT_TIMESTAMPS"
           THEN LET r == MergeBatch(timestampMap, m.timestamps, m.drain, prefs.showMessages,
                                    dom.messages, lastBatch.timestamps)
                IN /\ timestampMap' = r.map
                   /\ dom' = [dom EXCEPT !.messages = r.rendered]
                   /\ lastBatch' = [lastBatch EXCEPT !.timestamps = r.batch]
                   /\ UNCHANGED conversationMap
           ELSE IF started /\ PresenterAccepts(m) /\ m.type = "TIMEGPT_CONVERSATIONS"
           THEN LET r == MergeBatch(conversationMap, m.conversations, m.drain, prefs.showSidebar,
                                    dom.sidebar, lastBatch.conversations)
                IN /\ conversationMap' = r.map
                   /\ dom' = [dom EXCEPT !.sidebar = r.rendered]
                   /\ lastBatch' = [lastBatch EXCEPT !.conversations = r.batch]
                   /\ UNCHANGED timestampMap
           ELSE UNCHANGED <<timestampMap, conversationMap, dom, lastBatch>>
  /\ UNCHANGED <<started, prefs, settingsRead, drainsSent>>
  /\ UNCHANGED <<timestampBuffer, conversationBuffer, calls, taps>>
  /\ UNCHANGED environmentVars

\* a window of another origin posts a message of one of the three types
ForeignTimestamps == [k \in {"m1"} |-> [createTime |-> "666", role |-> Null]]
ForeignConversations ==
  [k \in {"c1"} |-> [createTime |-> "1999-01-01T00:00:00Z", updateTime |-> Null, title |-> "x"]]

ForeignMessages ==
  {[origin |-> OtherOrigin, type |-> "TIMEGPT_TIMESTAMPS", timestamps |-> ForeignTimestamps,
    conversations |-> EmptyObj, drain |-> FALSE],
   [origin |-> OtherOrigin, type |-> "TIMEGPT_CONVERSATIONS", timestamps |-> EmptyObj,
    conversations |-> ForeignConversations, drain |-> FALSE],
   [origin |-> OtherOrigin, type |-> "TIMEGPT_DRAIN_REQUEST", timestamps |-> EmptyObj,
    conversations |-> EmptyObj, drain |-> FALSE]}

ForeignPost ==
  /\ foreignPosts < MaxForeign
  /\ foreignPosts' = foreignPosts + 1
  /\ \E m \in ForeignMessages : channel' = Append(channel, m)
  /\ UNCHANGED <<stored, settingsWrites>>
  /\ UNCHANGED <<interceptorVars, presenterVars>>

(***************************************************************************)
(* Initial state: the Interceptor is installed at document_start, the      *)
(* content script has not run yet, nothing is stored in the settings.      *)
(***************************************************************************)
Init ==
  /\ timestampBuffer = EmptyObj
  /\ conversationBuffer = EmptyObj
  /\ calls = [c \in CallIds |-> IdleCall]
  /\ taps = [c \in CallIds |-> NoTap]
  /\ channel = <<>>
  /\ started = FALSE
  /\ timestampMap = EmptyObj
  /\ conversationMap = EmptyObj
  /\ prefs = [currentFormat |-> DEFAULTS.timestampFormat,
              showMessages |-> DEFAULTS.showMessageTimestamps,
              showSidebar |-> DEFAULTS.showSidebarTimestamps]
  /\ settingsRead = FALSE
  /\ stored = DEFAULTS
  /\ drainsSent = 0
  /\ dom = [messages |-> {}, sidebar |-> {}]
  /\ lastBatch = [timestamps |-> NoBatch, conversations |-> NoBatch]
  /\ sent = [timestamps |-> {}, conversations |-> {}]
  /\ foreignPosts = 0
  /\ settingsWrites = 0

(***************************************************************************)
(* The page: a few fetch calls of each kind, the channel, the Presenter.   *)
(***************************************************************************)
Hex19 == [i \in 1..(MinIdLen - 1) |-> "a"]

DetailUrl == DetailPrefix \o Hex19 \o <<"a">>
ListUrl == ListLit \o <<"?">>

DetailUpdate ==
  Fetch("Request", DetailUrl, Response(JsonContentType,
    JsonBody(JsonObject(Mapping(<<Node(NoMessage),
                                  Node(Message("m1", "1700000050", "user")),
                                  Node(Message("m2", "1700000060", Absent))>>), NoItems))))

ListPage ==
  Fetch("URL", ListUrl, Response(JsonContentType,
    JsonBody(JsonObject(NoMapping,
                        Items(<<Item("c1", "2024-01-01T00:00:00Z", Absent, "First")>>)))))

\* three events in one chunk: m2 is announced, m1 follows, m2 is sent again
\* with a later time in an event that no blank line ends, so that it stays
\* in the tap's buffer until the stream is done
LiveStream ==
  Fetch("string", StreamLit, Response(EventStreamContentType,
    TextBody(<<DataPrefix \o <<"{", "input:m2", "}">> \o BlankLine
                 \o DataPrefix \o <<"{", "delta:m1", "}">> \o BlankLine
                 \o DataPrefix \o <<"{", "delta:m2", "}">> >>)))

\* two events in two chunks, for two messages
TurnStream ==
  Fetch("string", StreamLit, Response(EventStreamContentType,
    TextBody(<<DataPrefix \o <<"{", "input:m2", "}">> \o BlankLine \o DataPrefix,
               <<"{", "delta:m1", "}">> \o BlankLine>>)))

PageRequests == {DetailUpdate, ListPage, LiveStream}

\* the Interceptor, the channel and the Presenter's drain and merge logic;
\* the host reads the tapped streams and does not cancel them
Next ==
  \/ \E c \in PageCalls :
       \/ FetchStart(c, PageRequests)
       \/ FetchResolved(c)
       \/ DetailJsonSettled(c)
       \/ ListJsonSettled(c)
       \/ PullStart(c)
       \/ ReadChunk(c)
       \/ ReadDone(c)
       \/ HostRead(c)
  \/ PresenterStart
  \/ DrainTimer
  \/ Deliver

Spec == Init /\ [][Next]_vars

\* JSON responses only, and messages from a window of another origin
NextOrigin ==
  \/ \E c \in PageCalls :
       \/ FetchStart(c, {DetailUpdate, ListPage})
       \/ FetchResolved(c)
       \/ DetailJsonSettled(c)
       \/ ListJsonSettled(c)
  \/ PresenterStart
  \/ DrainTimer
  \/ Deliver
  \/ ForeignPost

SpecOrigin == Init /\ [][NextOrigin]_vars

\* the call before c has returned and its stream, if any, has ended
Finished(c) == calls[c].pc = "done" /\ (taps[c].active => taps[c].closed)

\* a stream and a list fetched one after the other, the settings read and
\* preference changes
NextSettings ==
  \/ \E c \in PageCalls :
       \/ (\A d \in PageCalls : d < c => Finished(d)) /\ FetchStart(c, {TurnStream, ListPage})
       \/ FetchResolved(c)
       \/ ListJsonSettled(c)
       \/ PullStart(c)
       \/ ReadChunk(c)
       \/ ReadDone(c)
       \/ HostRead(c)
  \/ PresenterStart
  \/ DrainTimer
  \/ Deliver
  \/ SettingsLoaded
  \/ SettingsWrite

SpecSettings == Init /\ [][NextSettings]_vars

(***************************************************************************)
(* The wrapper alone, one call, over every URL made of a few tokens.       *)
(***************************************************************************)
UrlTokens ==
  {DetailPrefix \o Hex19 \o <<"a">>, DetailPrefix \o Hex19, ListLit, StreamLit,
   LimitLit, ListLit \o <<"?">>, <<"a">>, <<"z">>}

RECURSIVE UrlsOfLen(_)
UrlsOfLen(n) ==
  IF n = 0 THEN {<<>>}
  ELSE {u \o t : u \in UrlsOfLen(n - 1), t \in UrlTokens}

Urls(max) == UNION {UrlsOfLen(n) : n \in 0..max}

UserMessage == Message("m1", "1700000000", "user")
FirstConversation == Item("c1", "2024-01-01T00:00:00Z", Absent, Absent)

WrapperResponses ==
  {Response(JsonContentType, JsonBody(JsonObject(Mapping(<<Node(UserMessage)>>), NoItems))),
   Response(JsonContentType, JsonBody(JsonObject(NoMapping, Items(<<FirstConversation>>)))),
   Response(JsonContentType, JsonBody(JsonObject(NoMapping, NoItems))),
   Response(JsonContentType, JsonBody(JsonNull)),
   Response(NoContentType, TextBody(<< <<"<">> >>)),
   Response(EventStreamContentType, TextBody(<< <<"d">> >>)),
   Response(EventStreamContentType, NoBody)}

Errors == {"TypeError: Failed to fetch", "AbortError"}

WrapperRequests(max) ==
  {Fetch(f, u, r) : f \in Forms, u \in Urls(max), r \in WrapperResponses}
    \cup {FailingFetch(f, u, e) : f \in Forms, u \in Urls(max), e \in Errors}

NextWrapper ==
  \/ FetchStart(1, WrapperRequests(MaxUrlTokens))
  \/ FetchRejected(1)
  \/ FetchResolved(1)
  \/ DetailJsonSettled(1)
  \/ ListJsonSettled(1)

SpecWrapper == Init /\ [][NextWrapper]_vars

(***************************************************************************)
(* Claims about the wrapper.                                               *)
(***************************************************************************)
Returned(c) == calls[c].pc = "done"

\* the body is not JSON, or is JSON without the key its branch looks for
BadBody(call) ==
  LET json == JsonOf(call.request.response) IN
  \/ ~json.ok
  \/ "detail" \in call.branches /\ json.data.mapping.tag = "absent"
  \/ "list" \in call.branches /\ json.data.items.tag = "absent"

\* C1: a call classified conversation-detail or conversation-list whose body
\* is not JSON, or is JSON without mapping / items, contributes no record,
\* changes no buffer, posts no message and resolves with the response object
\* the original fetch produced.
C1_FailOpenBadBody ==
  \A c \in CallIds :
    (/\ Returned(c)
     /\ calls[c].branches \cap {"detail", "list"} # {}
     /\ BadBody(calls[c]))
    => (/\ calls[c].writes = 0
        /\ calls[c].posts = 0
        /\ calls[c].result = Resolved("original"))

\* C2: when the original fetch rejects, the wrapped fetch rejects with the
\* same error whatever the URL and the form of the input; no classification
\* branch runs, no buffer is written and no message is posted by that call.
C2_ErrorTransparency ==
  \A c \in CallIds :
    (calls[c].request.rejects /\ calls[c].pc \notin {"idle", "fetching"})
    => (/\ calls[c].pc = "done"
        /\ calls[c].result = Rejected(calls[c].request.error)
        /\ calls[c].branches = {}
        /\ calls[c].writes = 0
        /\ calls[c].posts = 0
        /\ ~taps[c].active)

\* a rejected fetch of a URL that a successful call would have classified
C2_Witness ==
  \E c \in CallIds :
    /\ Returned(c)
    /\ calls[c].request.rejects
    /\ calls[c].request.error = "AbortError"
    /\ IsDetail(calls[c].url)

\* C4: during one call at most one of the three extraction branches
\* (conversation-detail, conversation-list, live-stream) is taken.
C4_ExclusiveClassification ==
  \A c \in CallIds : Cardinality(calls[c].branches) <= 1

(***************************************************************************)
(* The tap alone: one call to the streaming endpoint, every way of cutting *)
(* a stream body into chunks.                                              *)
(***************************************************************************)
MaxChunks == 2

StreamUrl == StreamLit

EventBytes(atom) == DataPrefix \o <<"{", atom, "}">>

StreamTexts ==
  {EventBytes("input:m2") \o BlankLine \o EventBytes("delta:m1") \o BlankLine,
   DataPrefix \o <<"{", BadByte>> \o BlankLine \o EventBytes("input:m2") \o BlankLine,
   <<":", LeadByte, ContByte>> \o NewLine \o EventBytes("delta:m2") \o BlankLine
     \o EventBytes("delta:m1"),
   <<"e", "v", "e", "n", "t", ":", " ", "x">> \o NewLine \o EventBytes("both") \o BlankLine
     \o DataPrefix \o DoneLit \o BlankLine,
   EventBytes("delta:noid") \o BlankLine \o EventBytes("delta:m1")}

\* the ways of cutting text into exactly n chunks, none of them empty
RECURSIVE Cuts(_, _)
Cuts(text, n) ==
  IF n = 1 THEN IF text = <<>> THEN {} ELSE {<<text>>}
  ELSE UNION {{<<SubSeq(text, 1, k)>> \o rest : rest \in Cuts(SubSeq(text, k + 1, Len(text)), n - 1)} :
                k \in 1..(Len(text) - 1)}

Chunkings(text, max) == UNION {Cuts(text, n) : n \in 1..max}

StreamRequests(max) ==
  {Fetch("string", StreamUrl, Response(EventStreamContentType, TextBody(chunks))) :
     chunks \in UNION {Chunkings(text, max) : text \in StreamTexts}}

NextStream ==
  \/ FetchStart(1, StreamRequests(MaxChunks))
  \/ FetchResolved(1)
  \/ PullStart(1)
  \/ ReadChunk(1)
  \/ ReadDone(1)
  \/ HostRead(1)
  \/ HostCancel(1)

SpecStream == Init /\ [][NextStream]_vars

\* C3: the chunks handed to the host are exactly the chunks read from the
\* underlying stream, in order, unaltered, none dropped or duplicated, and
\* the tapped stream closes when the underlying stream ends, whatever the
\* events in it decode or parse to.
C3_TapPassThrough ==
  \A c \in CallIds :
    taps[c].active =>
      /\ taps[c].forwarded = SubSeq(Chunks(c), 1, taps[c].pos)
      /\ taps[c].closed => taps[c].forwarded = Chunks(c)
      /\ (taps[c].ended /\ ~taps[c].cancelled) => taps[c].closed

\* a stream of several chunks was forwarded to its end although one of its
\* events held an invalid byte and did not parse, while another one did
C3_Witness ==
  \E c \in CallIds :
    /\ taps[c].closed
    /\ Len(taps[c].forwarded) >= 2
    /\ \E i \in 1..Len(Chunks(c)) : Includes(Chunks(c)[i], <<BadByte>>)
    /\ calls[c].posts = 1

(***************************************************************************)
(* Claims about the buffers, the channel and the Presenter's maps.         *)
(***************************************************************************)

\* C5: every (id, record) pair in the Presenter's timestampMap and
\* conversationMap was carried by a TIMESTAMPS / CONVERSATIONS message that
\* the Interceptor posted before.
C5_PresenterSubset ==
  /\ Pairs(timestampMap) \subseteq sent.timestamps
  /\ Pairs(conversationMap) \subseteq sent.conversations

\* the Presenter holds the records of two messages; a message of another
\* origin, whatever it carried, has been dispatched as well
C5_Witness ==
  /\ started
  /\ DOMAIN timestampMap = {"m1", "m2"}
  /\ lastBatch.timestamps.seen
  /\ foreignPosts > 0
  /\ channel = <<>>

\* C6: once the response to a drain request has been delivered, the
\* Presenter's map of that category has exactly the keys and values that
\* the Interceptor's buffer had when the drain was served (the payload of the
\* response), whether or not the Presenter received the broadcasts before it.
C6_DrainReplay ==
  /\ lastBatch.timestamps.drain => timestampMap = lastBatch.timestamps.payload
  /\ lastBatch.conversations.drain => conversationMap = lastBatch.conversations.payload

\* a drain response has just given the Presenter a record it had missed and
\* replaced the older value it held for another one
C6_Witness ==
  /\ lastBatch.timestamps.drain
  /\ lastBatch.timestamps.changed
  /\ timestampMap = timestampBuffer
  /\ \E k \in DOMAIN timestampBuffer : <<k, timestampBuffer[k]>> \in sent.timestamps
  /\ Cardinality(sent.timestamps) > Cardinality(DOMAIN timestampBuffer)

\* C7: if every posted message is eventually dispatched, then once the
\* Presenter has started every record that is in a buffer of the Interceptor
\* is eventually in the Presenter's map of that category with the value the
\* buffer holds: what was extracted before the Presenter listened comes with
\* a drain response, what is extracted later with its own broadcast.
FairSpec == Spec /\ WF_vars(Deliver)

C7_EventualConsistency ==
  /\ \A id \in {"m1", "m2"} :
       (started /\ id \in DOMAIN timestampBuffer)
         ~> (id \in DOMAIN timestampMap /\ timestampMap[id] = timestampBuffer[id])
  /\ \A id \in {"c1"} :
       (started /\ id \in DOMAIN conversationBuffer)
         ~> (id \in DOMAIN conversationMap /\ conversationMap[id] = conversationBuffer[id])

\* every message has been dispatched and the Presenter, which had missed a
\* broadcast and got it back from a drain, holds what the buffer holds
C7_Witness ==
  /\ started
  /\ channel = <<>>
  /\ lastBatch.timestamps.drain
  /\ DOMAIN timestampBuffer = {"m1", "m2"}
  /\ timestampMap = timestampBuffer
  /\ \E c \in CallIds : taps[c].closed

\* C8: the key sets of the Interceptor's two buffers and of the Presenter's
\* two maps only grow.
C8_KeysNeverRemoved ==
  [][/\ DOMAIN timestampBuffer \subseteq DOMAIN timestampBuffer'
     /\ DOMAIN conversationBuffer \subseteq DOMAIN conversationBuffer'
     /\ DOMAIN timestampMap \subseteq DOMAIN timestampMap'
     /\ DOMAIN conversationMap \subseteq DOMAIN conversationMap']_vars

\* buffer and map are filled, from stream events and drains, after the
\* message timestamps have been switched off in the settings
C8_Witness ==
  /\ DOMAIN timestampBuffer = {"m1", "m2"}
  /\ DOMAIN timestampMap = {"m1", "m2"}
  /\ settingsWrites > 0
  /\ ~prefs.showMessages
  /\ drainsSent = DrainRequests

\* C9: a batch delivered to the Presenter a second time leaves the map as it
\* was after the first delivery and counts no new id; an extraction result
\* that is in flight, merged into the Interceptor's buffer once more, leaves
\* the buffer as it is after one merge.
C9_MergeIdempotent ==
  /\ lastBatch.timestamps.repeated =>
       ~lastBatch.timestamps.changed /\ lastBatch.timestamps.newCount = 0
  /\ lastBatch.conversations.repeated =>
       ~lastBatch.conversations.changed /\ lastBatch.conversations.newCount = 0
  /\ \A i \in 1..Len(channel) :
       LET m == channel[i]
           once == ObjectAssign(timestampBuffer, m.timestamps)
           onceC == ObjectAssign(conversationBuffer, m.conversations)
       IN /\ ObjectAssign(once, m.timestamps) = once
          /\ ObjectAssign(onceC, m.conversations) = onceC

\* the Presenter has received the same non-empty batch twice in a row
C9_Witness ==
  /\ lastBatch.timestamps.repeated
  /\ Cardinality(DOMAIN lastBatch.timestamps.payload) = 2
  /\ DOMAIN timestampMap = DOMAIN lastBatch.timestamps.payload

(***************************************************************************)
(* extractMessageTimestamps alone: one call to the conversation-detail     *)
(* endpoint, over every mapping of a few nodes.                            *)
(***************************************************************************)
NodeIds == {Absent, "", "m1", "m2"}
NodeTimes == {Null, "0", "1700000000"}
NodeRoles == {Absent, "user"}

NodePool ==
  {Node(Message(id, t, r)) : id \in NodeIds, t \in NodeTimes, r \in NodeRoles}
    \cup {Node(Message("m1", "1700000000", "")), Node(Message("m2", Absent, "user")),
          Node(NoMessage), Node(NullMessage), NullNode}

RECURSIVE MappingsOfLen(_)
MappingsOfLen(n) ==
  IF n = 0 THEN {<<>>}
  ELSE {Append(m, node) : m \in MappingsOfLen(n - 1), node \in NodePool}

DetailBodies(max) ==
  {JsonObject(Mapping(entries), NoItems) :
     entries \in UNION {MappingsOfLen(n) : n \in 0..max}}

DetailRequests(max) ==
  {Fetch("string", DetailUrl, Response(JsonContentType, JsonBody(data))) : data \in DetailBodies(max)}

NextExtract ==
  \/ FetchStart(1, DetailRequests(MaxNodes))
  \/ FetchResolved(1)
  \/ DetailJsonSettled(1)

SpecExtract == Init /\ [][NextExtract]_vars

\* the mapping of the response of call c, in Object.entries order
MappingOf(c) == calls[c].request.response.body.json.mapping.entries

\* a detail response of the shape of ConversationDetailResponse: every node
\* is an object, its message is missing, null or an object
WellFormedDetail(c) ==
  /\ calls[c].request.response.body.kind = "json"
  /\ calls[c].request.response.body.json.top = "object"
  /\ calls[c].request.response.body.json.mapping.tag = "object"
  /\ \A i \in 1..Len(MappingOf(c)) : MappingOf(c)[i].tag = "object"

Extracted(c) == Returned(c) /\ "detail" \in calls[c].branches /\ WellFormedDetail(c)

\* the nodes whose message has a non-null id and a non-null create_time
NonNullNodes(entries) ==
  {i \in 1..Len(entries) :
     /\ entries[i].message.tag = "object"
     /\ ~Nullish(entries[i].message.id)
     /\ ~Nullish(entries[i].message.create_time)}

\* the nodes whose message has a non-empty id and a non-null create_time
ContributingNodes(entries) ==
  {i \in NonNullNodes(entries) : entries[i].message.id # ""}

\* the last contributing node that carries the id
LastNode(entries, id) ==
  CHOOSE i \in ContributingNodes(entries) :
    /\ entries[i].message.id = id
    /\ \A j \in ContributingNodes(entries) : entries[j].message.id = id => j <= i

ExpectedEntries(entries) ==
  [id \in {entries[i].message.id : i \in ContributingNodes(entries)} |->
     LET msg == entries[LastNode(entries, id)].message
     IN [createTime |-> msg.create_time,
         role |-> IF msg.author_role \in {Absent, Null, ""} THEN Null ELSE msg.author_role]]

\* C10 as stated: the number of entries produced from a well-formed detail
\* response equals the number of mapping nodes whose message has a non-null
\* id and a non-null create_time.
C10_CountOfNonNullNodes ==
  \A c \in CallIds :
    Extracted(c) =>
      Cardinality(DOMAIN timestampBuffer) = Cardinality(NonNullNodes(MappingOf(c)))

\* C10 amended: the entries produced from a well-formed detail response are
\* keyed by the distinct non-empty message ids of the nodes whose message has
\* a non-null create_time, so their number is the number of those ids; each
\* entry has the create_time and the author role (null when missing or empty)
\* of the last such node with its id, and the entries are posted in one batch.
C10_DetailEntries ==
  \A c \in CallIds :
    Extracted(c) =>
      LET expected == ExpectedEntries(MappingOf(c)) IN
      /\ timestampBuffer = expected
      /\ Cardinality(DOMAIN timestampBuffer) =
           Cardinality({MappingOf(c)[i].message.id : i \in ContributingNodes(MappingOf(c))})
      /\ channel = IF DOMAIN expected = {} THEN <<>> ELSE <<TimestampsMsg(expected, FALSE)>>

\* the example of the spec: one node m1/1700000000/user yields exactly
\* m1 -> {createTime: 1700000000, role: "user"}, next to a node that is skipped
C10_Witness ==
  \E c \in CallIds :
    /\ Extracted(c)
    /\ Len(MappingOf(c)) = 2
    /\ MappingOf(c)[1] = Node(NullMessage)
    /\ MappingOf(c)[2] = Node(Message("m1", "1700000000", "user"))
    /\ timestampBuffer = [k \in {"m1"} |-> [createTime |-> "1700000000", role |-> "user"]]

(***************************************************************************)
(* extractConversationTimestamps alone: one call to the conversation-list  *)
(* endpoint, over every list of a few items.                               *)
(***************************************************************************)
ItemIds == {Absent, "", "c1", "c2"}
ItemTimes == {Absent, "", "2024-01-01T00:00:00Z"}
ItemDetails == {<<Absent, Absent>>, <<"2024-02-02T00:00:00Z", "First">>}

ItemPool ==
  {Item(id, t, d[1], d[2]) : id \in ItemIds, t \in ItemTimes, d \in ItemDetails}
    \cup {Item("c1", "2024-01-01T00:00:00Z", Null, ""),
          Item("c2", "2024-01-01T00:00:00Z", "", Null), NullItem}

RECURSIVE ItemsOfLen(_)
ItemsOfLen(n) ==
  IF n = 0 THEN {<<>>}
  ELSE {Append(l, item) : l \in ItemsOfLen(n - 1), item \in ItemPool}

ListBodies(max) ==
  {JsonObject(NoMapping, Items(elems)) :
     elems \in UNION {ItemsOfLen(n) : n \in 0..max}}

ListRequests(max) ==
  {Fetch("string", ListUrl, Response(JsonContentType, JsonBody(data))) : data \in ListBodies(max)}

NextList ==
  \/ FetchStart(1, ListRequests(MaxItems))
  \/ FetchResolved(1)
  \/ ListJsonSettled(1)

SpecList == Init /\ [][NextList]_vars

\* the items of the response of call c
ItemsOf(c) == calls[c].request.response.body.json.items.elems

\* a list response of the shape of ConversationsListResponse: items is an
\* array of objects
WellFormedList(c) ==
  /\ calls[c].request.response.body.kind = "json"
  /\ calls[c].request.response.body.json.top = "object"
  /\ calls[c].request.response.body.json.items.tag = "array"
  /\ \A i \in 1..Len(ItemsOf(c)) : ItemsOf(c)[i].tag = "object"

Listed(c) == Returned(c) /\ "list" \in calls[c].branches /\ WellFormedList(c)

\* the items that have an id and a create_time, whatever their value
PresentItems(elems) ==
  {i \in 1..Len(elems) : ~Nullish(elems[i].id) /\ ~Nullish(elems[i].create_time)}

\* the items whose id and create_time are not empty either
ContributingItems(elems) ==
  {i \in PresentItems(elems) : elems[i].id # "" /\ elems[i].create_time # ""}

\* the last contributing item that carries the id
LastItem(elems, id) ==
  CHOOSE i \in ContributingItems(elems) :
    /\ elems[i].id = id
    /\ \A j \in ContributingItems(elems) : elems[j].id = id => j <= i

ExpectedConversations(elems) ==
  [id \in {elems[i].id : i \in ContributingItems(elems)} |->
     LET item == elems[LastItem(elems, id)]
     IN [createTime |-> item.create_time,
         updateTime |-> IF item.update_time \in {Absent, Null, ""} THEN Null
                        ELSE item.update_time,
         title |-> IF item.title \in {Absent, Null, ""} THEN Null ELSE item.title]]

\* C11 as stated: the number of entries produced from a well-formed list
\* response equals the number of items that have both id and create_time.
C11_CountOfPresentItems ==
  \A c \in CallIds :
    Listed(c) =>
      Cardinality(DOMAIN conversationBuffer) = Cardinality(PresentItems(ItemsOf(c)))

\* C11 amended: the entries produced from a well-formed list response are
\* keyed by the distinct ids of the items whose id and create_time are both
\* present and not empty, so their number is the number of those ids; each
\* entry has the create_time, and the update_time and title (null when
\* missing, null or empty) of the last such item with its id, and the
\* entries are posted in one batch.
C11_ListEntries ==
  \A c \in CallIds :
    Listed(c) =>
      LET expected == ExpectedConversations(ItemsOf(c)) IN
      /\ conversationBuffer = expected
      /\ Cardinality(DOMAIN conversationBuffer) =
           Cardinality({ItemsOf(c)[i].id : i \in ContributingItems(ItemsOf(c))})
      /\ channel = IF DOMAIN expected = {} THEN <<>> ELSE <<ConversationsMsg(expected, FALSE)>>

\* an item without update_time and title yields an entry with both null,
\* next to an item without create_time that is skipped
C11_Witness ==
  \E c \in CallIds :
    /\ Listed(c)
    /\ Len(ItemsOf(c)) = 2
    /\ ItemsOf(c)[1] = Item("c2", Absent, Absent, Absent)
    /\ ItemsOf(c)[2] = Item("c1", "2024-01-01T00:00:00Z", Absent, Absent)
    /\ conversationBuffer =
         [k \in {"c1"} |-> [createTime |-> "2024-01-01T00:00:00Z", updateTime |-> Null,
                            title |-> Null]]

(***************************************************************************)
(* Claims about the dispatch of one message.                               *)
(***************************************************************************)

\* the step dispatches the oldest message of the channel: every other step
\* leaves the channel alone or appends to it
Dispatched ==
  /\ channel # <<>>
  /\ Len(channel') >= Len(channel) - 1
  /\ SubSeq(channel', 1, Len(channel) - 1) = Tail(channel)
  /\ ~(Len(channel') >= Len(channel) /\ SubSeq(channel', 1, Len(channel)) = channel)

\* the messages that the step has put behind those that were waiting
PostedBehind(waiting) == SubSeq(channel', waiting + 1, Len(channel'))

\* C12: when a same-origin drain request is dispatched, the messages posted
\* in response are one TIMESTAMPS message carrying the whole timestampBuffer
\* if and only if that buffer is not empty, then one CONVERSATIONS message
\* carrying the whole conversationBuffer if and only if that buffer is not
\* empty, and nothing else; neither buffer changes.
C12_DrainResponse ==
  [][(/\ Dispatched
      /\ Head(channel).origin = SelfOrigin
      /\ Head(channel).type = "TIMEGPT_DRAIN_REQUEST")
       => LET replies == PostedBehind(Len(channel) - 1)
              ts == {i \in 1..Len(replies) : replies[i].type = "TIMEGPT_TIMESTAMPS"}
              cs == {i \in 1..Len(replies) : replies[i].type = "TIMEGPT_CONVERSATIONS"}
          IN /\ timestampBuffer' = timestampBuffer
             /\ conversationBuffer' = conversationBuffer
             /\ Cardinality(ts) = IF DOMAIN timestampBuffer # {} THEN 1 ELSE 0
             /\ Cardinality(cs) = IF DOMAIN conversationBuffer # {} THEN 1 ELSE 0
             /\ Len(replies) = Cardinality(ts) + Cardinality(cs)
             /\ \A i \in ts : replies[i].timestamps = timestampBuffer
             /\ \A i \in cs : replies[i].conversations = conversationBuffer
             /\ \A i \in 1..Len(replies) : replies[i].origin = SelfOrigin]_vars

\* a drain has been served while one buffer was filled and the other one
\* empty: its only response waits in the channel
C12_Witness ==
  /\ timestampBuffer = EmptyObj
  /\ DOMAIN conversationBuffer # {}
  /\ \E i \in 1..Len(channel) :
       /\ channel[i].drain
       /\ channel[i].type = "TIMEGPT_CONVERSATIONS"
       /\ channel[i].conversations = conversationBuffer
  /\ \A i \in 1..Len(channel) : channel[i].type # "TIMEGPT_TIMESTAMPS"

\* C13: when a message of another origin is dispatched, whatever its type
\* and payload, the Presenter's maps and rendered timestamps stay as they
\* are, the Interceptor posts nothing in response and its buffers stay as
\* they are.
C13_OriginRejection ==
  [][(Dispatched /\ Head(channel).origin # SelfOrigin)
       => /\ channel' = Tail(channel)
          /\ UNCHANGED <<timestampMap, conversationMap, dom, lastBatch>>
          /\ UNCHANGED <<timestampBuffer, conversationBuffer, sent>>]_vars

\* every message of the other origin has been dispatched to a Presenter that
\* was listening or started later; the Presenter holds what the Interceptor
\* buffered, not what the other window sent
C13_Witness ==
  /\ started
  /\ foreignPosts = MaxForeign
  /\ channel = <<>>
  /\ drainsSent = DrainRequests
  /\ "c1" \in DOMAIN conversationMap
  /\ conversationMap = conversationBuffer
  /\ conversationMap # ForeignConversations
  /\ timestampMap = EmptyObj

(***************************************************************************)
(* Claims about the time at which the wrapper returns and about calls      *)
(* that are in flight together.                                            *)
(***************************************************************************)

\* C14: a call classified as conversation-detail or conversation-list has
\* handed the response to the host while the reading and parsing of its
\* body for extraction is still pending.
C14_NoAddedLatency ==
  \A c \in CallIds :
    calls[c].pc \in {"detailJson", "listJson"} => calls[c].result = Resolved("original")

\* an older answer about the same message and the same conversation
DetailFirst ==
  Fetch("string", DetailUrl, Response(JsonContentType,
    JsonBody(JsonObject(Mapping(<<Node(Message("m1", "1700000000", "user"))>>), NoItems))))

ListRenamed ==
  Fetch("string", ListUrl, Response(JsonContentType,
    JsonBody(JsonObject(NoMapping,
                        Items(<<Item("c1", "2024-01-01T00:00:00Z", "2024-03-03T00:00:00Z",
                                     "Renamed")>>)))))

RaceRequests == {DetailFirst, DetailUpdate, ListPage, ListRenamed}

\* calls to the JSON endpoints that are in flight together, and the Presenter
NextRace ==
  \/ \E c \in CallIds :
       \/ FetchStart(c, RaceRequests)
       \/ FetchResolved(c)
       \/ DetailJsonSettled(c)
       \/ ListJsonSettled(c)
  \/ PresenterStart
  \/ DrainTimer
  \/ Deliver

SpecRace == Init /\ [][NextRace]_vars

\* the entries that the response of call c yields, per category
TimestampsOf(c) ==
  IF IsDetail(calls[c].url) /\ WellFormedDetail(c) THEN ExpectedEntries(MappingOf(c))
  ELSE EmptyObj

ConversationsOf(c) ==
  IF IsList(calls[c].url) /\ WellFormedList(c) THEN ExpectedConversations(ItemsOf(c))
  ELSE EmptyObj

\* the results of the calls 1..n merged in the order in which the calls were made
RECURSIVE TimestampsInCallOrder(_)
TimestampsInCallOrder(n) ==
  IF n = 0 THEN EmptyObj ELSE ObjectAssign(TimestampsInCallOrder(n - 1), TimestampsOf(n))

RECURSIVE ConversationsInCallOrder(_)
ConversationsInCallOrder(n) ==
  IF n = 0 THEN EmptyObj ELSE ObjectAssign(ConversationsInCallOrder(n - 1), ConversationsOf(n))

\* C15: when all calls have completed, in whatever order, the buffers hold
\* what they hold when the calls complete in the order in which they were
\* made, and so do the Presenter's maps once every message is delivered.
C15_OrderTolerance ==
  (\A c \in CallIds : calls[c].pc = "done") =>
    /\ timestampBuffer = TimestampsInCallOrder(MaxCalls + 1)
    /\ conversationBuffer = ConversationsInCallOrder(MaxCalls + 1)
    /\ (started /\ channel = <<>>) =>
         /\ timestampMap = TimestampsInCallOrder(MaxCalls + 1)
         /\ conversationMap = ConversationsInCallOrder(MaxCalls + 1)

(***************************************************************************)
(* Claims about the cancellation of a tapped stream.                       *)
(***************************************************************************)

\* C16: once the host has cancelled a tapped stream, the reader of the
\* underlying stream is cancelled too: no read is issued on it any more, and
\* a read that was pending can only end, it delivers no further chunk and
\* nothing more is extracted or forwarded.
C16_CancellationPropagation ==
  [][\A c \in CallIds :
       /\ taps'[c].cancelled => taps'[c].readerCancelled
       /\ taps[c].cancelled =>
            /\ taps'[c].cancelled
            /\ taps'[c].reading => taps[c].reading
            /\ taps'[c].pos = taps[c].pos
            /\ taps'[c].forwarded = taps[c].forwarded]_vars

\* the host cancelled while a read was pending and chunks were left: the
\* read has ended and the chunks stay unread
C16_Witness ==
  \E c \in CallIds :
    /\ taps[c].cancelled
    /\ taps[c].readerCancelled
    /\ taps[c].ended
    /\ ~taps[c].reading
    /\ taps[c].pos >= 1
    /\ taps[c].pos < Len(Chunks(c))

(***************************************************************************)
(* Claims about the broadcast of extraction results.                       *)
(***************************************************************************)

\* the buffers after the batches of msgs have been merged into them in order
RECURSIVE MergedTimestamps(_, _)
MergedTimestamps(buffer, msgs) ==
  IF msgs = <<>> THEN buffer
  ELSE MergedTimestamps(ObjectAssign(buffer, Head(msgs).timestamps), Tail(msgs))

RECURSIVE MergedConversations(_, _)
MergedConversations(buffer, msgs) ==
  IF msgs = <<>> THEN buffer
  ELSE MergedConversations(ObjectAssign(buffer, Head(msgs).conversations), Tail(msgs))

\* C17: in every step but the dispatch of a message, each buffer becomes the
\* overwrite-by-key merge, in posting order, of the batches that the step
\* posts, and the step writes to a buffer as often as it posts; the batches
\* are marked as broadcasts, not as drain responses; a detail or list call
\* posts one message that holds exactly the entries of its response, or
\* none if there are no entries; a dispatch changes no buffer.
C17_BatchBroadcast ==
  [][IF Dispatched
     THEN timestampBuffer' = timestampBuffer /\ conversationBuffer' = conversationBuffer
     ELSE LET posted == PostedBehind(Len(channel))
              batches == {i \in 1..Len(posted) : posted[i].type # "TIMEGPT_DRAIN_REQUEST"}
          IN /\ timestampBuffer' = MergedTimestamps(timestampBuffer, posted)
             /\ conversationBuffer' = MergedConversations(conversationBuffer, posted)
             /\ \A i \in batches : posted[i].origin = SelfOrigin /\ ~posted[i].drain
             /\ \A c \in CallIds :
                  /\ calls'[c].writes - calls[c].writes = calls'[c].posts - calls[c].posts
                  /\ (calls'[c] # calls[c] \/ taps'[c] # taps[c]) =>
                       calls'[c].posts - calls[c].posts = Cardinality(batches)
                  /\ (calls[c].pc = "detailJson" /\ calls'[c].pc # "detailJson") =>
                       posted = IF DOMAIN ExpectedEntries(MappingOf(c)) = {} THEN <<>>
                                ELSE <<TimestampsMsg(ExpectedEntries(MappingOf(c)), FALSE)>>
                  /\ (calls[c].pc = "listJson" /\ calls'[c].pc # "listJson") =>
                       posted = IF DOMAIN ExpectedConversations(ItemsOf(c)) = {} THEN <<>>
                                ELSE <<ConversationsMsg(ExpectedConversations(ItemsOf(c)),
                                                        FALSE)>>]_vars

\* three stream events were broadcast one by one, each batch smaller than
\* the buffer, and the last one overwrote the record of the first
C17_Witness ==
  /\ Len(channel) = 3
  /\ \A i \in 1..3 : channel[i].type = "TIMEGPT_TIMESTAMPS" /\ ~channel[i].drain
  /\ DOMAIN timestampBuffer = {"m1", "m2"}
  /\ DOMAIN channel[1].timestamps = {"m2"}
  /\ DOMAIN channel[2].timestamps = {"m1"}
  /\ channel[1].timestamps["m2"] # timestampBuffer["m2"]
  /\ channel[3].timestamps["m2"] = timestampBuffer["m2"]

(***************************************************************************)
(* Claims about the nodes that a detail response skips.                    *)
(***************************************************************************)

\* the mapping without its i-th node
WithoutNode(entries, i) == SubSeq(entries, 1, i - 1) \o SubSeq(entries, i + 1, Len(entries))

DetailSilent ==
  Fetch("string", DetailUrl, Response(JsonContentType,
    JsonBody(JsonObject(Mapping(<<Node(NoMessage), Node(Message("m1", Null, "user")),
                                  Node(Message(Absent, "1700000000", "user"))>>), NoItems))))

ListSilent ==
  Fetch("string", ListUrl, Response(JsonContentType,
    JsonBody(JsonObject(NoMapping,
                        Items(<<Item("c1", Absent, Absent, "First"),
                                Item("", "2024-01-01T00:00:00Z", Absent, Absent)>>)))))

\* an event without a message, an event whose message has no create_time,
\* and the end marker, which no blank line ends
StreamSilent ==
  Fetch("string", StreamLit, Response(EventStreamContentType,
    TextBody(<<DataPrefix \o <<"{", "text", "}">> \o BlankLine
                 \o DataPrefix \o <<"{", "delta:null", "}">> \o BlankLine
                 \o DataPrefix \o DoneLit>>)))

SilentRequests == {DetailSilent, ListSilent, StreamSilent}

NextQuiet ==
  \/ \E c \in PageCalls :
       \/ FetchStart(c, SilentRequests \cup {ListPage})
       \/ FetchResolved(c)
       \/ DetailJsonSettled(c)
       \/ ListJsonSettled(c)
       \/ PullStart(c)
       \/ ReadChunk(c)
       \/ ReadDone(c)
       \/ HostRead(c)
  \/ PresenterStart
  \/ DrainTimer
  \/ Deliver

SpecQuiet == Init /\ [][NextQuiet]_vars

\* C19: a call whose response yields no entries writes to no buffer and
\* posts nothing; no TIMESTAMPS or CONVERSATIONS message with an empty
\* payload is ever in the channel, posted by an extraction or by a drain,
\* and the Presenter never receives one.
C19_NoEmptyBroadcast ==
  /\ \A c \in CallIds :
       calls[c].request \in SilentRequests => calls[c].writes = 0 /\ calls[c].posts = 0
  /\ (\A c \in CallIds : calls[c].pc = "idle" \/ calls[c].request \in SilentRequests) =>
       /\ timestampBuffer = EmptyObj
       /\ conversationBuffer = EmptyObj
       /\ \A i \in 1..Len(channel) : channel[i].type = "TIMEGPT_DRAIN_REQUEST"
  /\ \A i \in 1..Len(channel) :
       /\ channel[i].type = "TIMEGPT_TIMESTAMPS" => DOMAIN channel[i].timestamps # {}
       /\ channel[i].type = "TIMEGPT_CONVERSATIONS" => DOMAIN channel[i].conversations # {}
  /\ lastBatch.timestamps.seen => DOMAIN lastBatch.timestamps.payload # {}
  /\ lastBatch.conversations.seen => DOMAIN lastBatch.conversations.payload # {}

\* a stream whose events yield nothing has been read to its end and all
\* drain requests of the Presenter have been served: nothing was ever posted
C19_Witness ==
  /\ \E c \in CallIds : calls[c].request = StreamSilent /\ taps[c].closed
  /\ started
  /\ drainsSent = DrainRequests
  /\ channel = <<>>
  /\ timestampBuffer = EmptyObj
  /\ ~lastBatch.timestamps.seen
  /\ ~lastBatch.conversations.seen

(***************************************************************************)
(* A stream that repeats a message and a list, fetched one after the       *)
(* other, while the preferences are read and changed.                      *)
(***************************************************************************)
NextRender ==
  \/ \E c \in PageCalls :
       \/ (\A d \in PageCalls : d < c => Finished(d)) /\ FetchStart(c, {LiveStream, ListPage})
       \/ FetchResolved(c)
       \/ ListJsonSettled(c)
       \/ PullStart(c)
       \/ ReadChunk(c)
       \/ ReadDone(c)
       \/ HostRead(c)
  \/ PresenterStart
  \/ DrainTimer
  \/ Deliver
  \/ SettingsLoaded
  \/ SettingsWrite

SpecRender == Init /\ [][NextRender]_vars

\* C20: when a same-origin batch is dispatched to the Presenter, the map of
\* its category gets every entry of the batch, inserted or overwritten, and
\* keeps its other entries; the renderer of that category runs if and only
\* if the batch holds an id that the map did not have and the category's
\* preference is on; the other category is left alone, and a drain request
\* changes nothing in the Presenter.
C20_MergeAndRender ==
  [][(Dispatched /\ started /\ Head(channel).origin = SelfOrigin) =>
       LET m == Head(channel)
           newMessages == (DOMAIN m.timestamps) \ (DOMAIN timestampMap) # {}
           newConversations == (DOMAIN m.conversations) \ (DOMAIN conversationMap) # {}
       IN /\ m.type = "TIMEGPT_TIMESTAMPS" =>
               /\ DOMAIN timestampMap' = (DOMAIN timestampMap) \cup (DOMAIN m.timestamps)
               /\ \A id \in DOMAIN m.timestamps : timestampMap'[id] = m.timestamps[id]
               /\ \A id \in (DOMAIN timestampMap) \ (DOMAIN m.timestamps) :
                    timestampMap'[id] = timestampMap[id]
               /\ lastBatch'.timestamps.applied <=> (newMessages /\ prefs.showMessages)
               /\ dom'.messages = IF newMessages /\ prefs.showMessages
                                  THEN dom.messages \cup DOMAIN timestampMap'
                                  ELSE dom.messages
               /\ conversationMap' = conversationMap /\ dom'.sidebar = dom.sidebar
          /\ m.type = "TIMEGPT_CONVERSATIONS" =>
               /\ DOMAIN conversationMap' = (DOMAIN conversationMap) \cup (DOMAIN m.conversations)
               /\ \A id \in DOMAIN m.conversations : conversationMap'[id] = m.conversations[id]
               /\ \A id \in (DOMAIN conversationMap) \ (DOMAIN m.conversations) :
                    conversationMap'[id] = conversationMap[id]
               /\ lastBatch'.conversations.applied <=> (newConversations /\ prefs.showSidebar)
               /\ dom'.sidebar = IF newConversations /\ prefs.showSidebar
                                 THEN dom.sidebar \cup DOMAIN conversationMap'
                                 ELSE dom.sidebar
               /\ timestampMap' = timestampMap /\ dom'.messages = dom.messages
          /\ m.type = "TIMEGPT_DRAIN_REQUEST" =>
               UNCHANGED <<timestampMap, conversationMap, dom>>]_vars

\* the last batch held only an id that the Presenter knew: it replaced the
\* record and did not call the renderer, although the preference is on
C20_Witness ==
  /\ lastBatch.timestamps.seen
  /\ ~lastBatch.timestamps.drain
  /\ lastBatch.timestamps.newCount = 0
  /\ lastBatch.timestamps.changed
  /\ ~lastBatch.timestamps.applied
  /\ prefs.showMessages
  /\ settingsRead
  /\ dom.messages = {"m1", "m2"}

(***************************************************************************)
(* The drain requests of a page.                                           *)
(***************************************************************************)

\* the same-origin drain requests that the step has posted
DrainsPosted ==
  LET posted == PostedBehind(IF Dispatched THEN Len(channel) - 1 ELSE Len(channel))
  IN {i \in 1..Len(posted) :
        posted[i].type = "TIMEGPT_DRAIN_REQUEST" /\ posted[i].origin = SelfOrigin}

\* C21: the Presenter posts a drain request when it starts and twice more
\* from its timers, three in all and never a fourth; the dispatch of a
\* message, a drain response included, posts no drain request, and a step
\* that posts one neither reads nor changes what the Presenter has received.
C21_DrainSchedule ==
  [][/\ Cardinality(DrainsPosted) = drainsSent' - drainsSent
     /\ drainsSent' <= DrainRequests
     /\ Dispatched => DrainsPosted = {}
     /\ DrainsPosted # {} =>
          /\ Cardinality(DrainsPosted) = 1
          /\ started'
          /\ ~started <=> drainsSent = 0
          /\ UNCHANGED <<timestampMap, conversationMap, lastBatch, dom>>]_vars

\* the three requests were posted and dispatched while the buffers were
\* empty: no response ever came and no further request is posted
C21_Witness ==
  /\ started
  /\ drainsSent = DrainRequests
  /\ channel = <<>>
  /\ \A c \in PageCalls : calls[c].pc = "idle"
  /\ ~lastBatch.timestamps.seen
  /\ ~lastBatch.conversations.seen

(***************************************************************************)
(* Claims about the moment at which the tap processes an event.  What the  *)
(* tap has read is taken as one text here: the first n chunks of the       *)
(* response, decoded together and cut at the blank lines.                  *)
(***************************************************************************)
RECURSIVE Concat(_)
Concat(seqs) == IF seqs = <<>> THEN <<>> ELSE Head(seqs) \o Concat(Tail(seqs))

TextRead(c, n) == Decode(<<>>, Concat(SubSeq(Chunks(c), 1, n))).text

PartsRead(c, n) == Split(TextRead(c, n), BlankLine)

\* the events that a blank line has ended within the first n chunks, and the
\* text behind the last blank line
EventsCompleted(c, n) == SubSeq(PartsRead(c, n), 1, Len(PartsRead(c, n)) - 1)
TailRead(c, n) == PartsRead(c, n)[Len(PartsRead(c, n))]

\* the messages an event carries: that of an input_message envelope, then
\* that of a delta envelope
EventMessages(raw) ==
  LET data == JsonParse(LastDataLine(Split(raw, NewLine), <<>>)).data
  IN SelectSeq((IF data.type = "input_message" THEN <<data.input_message>> ELSE <<>>)
                 \o <<data.v_message>>,
               LAMBDA msg : msg.tag = "object")

HasIdAndTime(msg) == Truthy(msg.id) /\ ~Nullish(msg.create_time)
NonNullIdAndTime(msg) == ~Nullish(msg.id) /\ ~Nullish(msg.create_time)

RECURSIVE EntriesOf(_, _)
EntriesOf(msgs, acc) ==
  IF msgs = <<>> THEN acc
  ELSE EntriesOf(Tail(msgs), Put(acc, Head(msgs).id, MessageTimestamp(Head(msgs))))

\* the batches due for a sequence of events, one for each event that
\* carries a message with an id and a create_time
RECURSIVE BatchesDue(_)
BatchesDue(events) ==
  IF events = <<>> THEN <<>>
  ELSE LET entries == EntriesOf(SelectSeq(EventMessages(Head(events)), HasIdAndTime), EmptyObj)
       IN (IF DOMAIN entries # {} THEN <<TimestampsMsg(entries, FALSE)>> ELSE <<>>)
            \o BatchesDue(Tail(events))

\* the step reads a chunk of call c / ends the reading of call c
ChunkStep(c) == taps'[c].pos = taps[c].pos + 1
EndStep(c) == taps'[c].ended /\ ~taps[c].ended

\* the events that the chunk read in this step completes
NewlyCompleted(c) ==
  SubSeq(EventsCompleted(c, taps'[c].pos), Len(EventsCompleted(c, taps[c].pos)) + 1,
         Len(EventsCompleted(c, taps'[c].pos)))

\* C22 as stated: the step that reads the chunk completing an event posts,
\* for every message of that event with a non-null id and a non-null
\* create_time, a batch that carries the message under its id.
C22_NonNullIdBroadcast ==
  [][\A c \in PageCalls :
       ChunkStep(c) =>
         LET posted == PostedBehind(Len(channel))
             events == NewlyCompleted(c)
         IN \A e \in 1..Len(events) :
              \A k \in 1..Len(EventMessages(events[e])) :
                LET msg == EventMessages(events[e])[k]
                IN NonNullIdAndTime(msg) =>
                     \E i \in 1..Len(posted) :
                       /\ msg.id \in DOMAIN posted[i].timestamps
                       /\ posted[i].timestamps[msg.id] = MessageTimestamp(msg)]_vars

\* C22: the step that reads a chunk merges and posts, in the order of the
\* events, one batch for each event that this chunk completes and that
\* carries a message with a non-empty id and a non-null create_time, and
\* nothing else; the events completed before are not processed again; the
\* step that ends the reading processes the unterminated tail alone; no
\* other step of the tap posts anything.
C22_ImmediateBroadcast ==
  [][\A c \in PageCalls :
       LET posted == PostedBehind(Len(channel))
           before == EventsCompleted(c, taps[c].pos)
           after == EventsCompleted(c, taps'[c].pos)
       IN /\ ChunkStep(c) =>
               /\ SubSeq(after, 1, Len(before)) = before
               /\ posted = BatchesDue(NewlyCompleted(c))
               /\ timestampBuffer' = MergedTimestamps(timestampBuffer, posted)
               /\ taps'[c].buffer = TailRead(c, taps'[c].pos)
          /\ EndStep(c) =>
               /\ posted = BatchesDue(IF TailRead(c, taps[c].pos) = <<>> THEN <<>>
                                      ELSE <<TailRead(c, taps[c].pos)>>)
               /\ timestampBuffer' = MergedTimestamps(timestampBuffer, posted)
          /\ (taps[c].active /\ ~ChunkStep(c) /\ ~EndStep(c)) =>
               posted = <<>> /\ timestampBuffer' = timestampBuffer]_vars

\* the first of two chunks has completed one event, whose message is
\* posted and buffered although the second chunk has not been read
C22_Witness ==
  \E c \in PageCalls :
    /\ Len(Chunks(c)) = 2
    /\ taps[c].pos = 1
    /\ ~taps[c].ended
    /\ Len(EventsCompleted(c, 1)) = 1
    /\ Len(EventsCompleted(c, 2)) = 2
    /\ Len(channel) = 1
    /\ DOMAIN timestampBuffer = {"m2"}

\* C23: a chunk is handed to the host before the events it completes are
\* processed, or without waiting for them: when pull() enqueues a chunk it
\* has passed no event of that chunk to processSSEEvent.
C23_ForwardedBeforeExtraction ==
  \A c \in PageCalls : taps[c].active => taps[c].processedAtEnqueue = 0

(***************************************************************************)
(* The same body in other chunks.                                          *)
(***************************************************************************)

\* what the tap does with the whole body when it arrives as one chunk: the
\* events and the tail are processed in order
WholeBody(c) ==
  LET parts == PartsRead(c, Len(Chunks(c)))
      tail == parts[Len(parts)]
  IN ProcessEvents(SubSeq(parts, 1, Len(parts) - 1) \o (IF tail = <<>> THEN <<>> ELSE <<tail>>),
                   [buffer |-> EmptyObj, assigns |-> 0, posts |-> <<>>])

\* C24: when a tapped stream has been read to its end, the batches posted,
\* in their order, and the entries buffered are those of the body taken as
\* one chunk, however the body was cut into chunks: inside an event, inside
\* a data line, inside a character or between the two newlines of a blank
\* line.
C24_ChunkingIndependence ==
  \A c \in PageCalls :
    taps[c].closed =>
      /\ channel = WholeBody(c).posts
      /\ timestampBuffer = WholeBody(c).buffer
      /\ calls[c].posts = Len(WholeBody(c).posts)

\* a body of two events was cut between the two newlines that end its
\* first event, and both events were posted
C24_Witness ==
  \E c \in PageCalls :
    /\ taps[c].closed
    /\ Len(Chunks(c)) = 2
    /\ Chunks(c)[1][Len(Chunks(c)[1])] = "\n"
    /\ Chunks(c)[2][1] = "\n"
    /\ ~Includes(Chunks(c)[1], BlankLine)
    /\ Len(channel) = 2

(***************************************************************************)
(* The visibility preferences, the settings read and the document.         *)
(***************************************************************************)

\* lines 296-322: the MutationObserver's callback, for added nodes that hold
\* message elements, sidebar items, both or neither
MutationObserved ==
  /\ started
  /\ \E hasMessages \in BOOLEAN, hasSidebar \in BOOLEAN :
       dom' = [messages |-> IF hasMessages /\ prefs.showMessages
                            THEN ApplyTimestamps(dom.messages, timestampMap)
                            ELSE dom.messages,
               sidebar |-> IF hasSidebar /\ prefs.showSidebar
                           THEN ApplyTimestamps(dom.sidebar, conversationMap)
                           ELSE dom.sidebar]
  /\ UNCHANGED <<started, timestampMap, conversationMap, prefs, settingsRead, drainsSent,
                 lastBatch, channel>>
  /\ UNCHANGED <<interceptorVars, environmentVars>>

\* a stream and a list fetched one after the other, the Presenter started at
\* any moment, its settings read answered at any later moment, preference
\* changes before and after, and mutations of the document
NextVisibility ==
  \/ \E c \in PageCalls :
       \/ (\A d \in PageCalls : d < c => Finished(d)) /\ FetchStart(c, {LiveStream, ListPage})
       \/ FetchResolved(c)
       \/ ListJsonSettled(c)
       \/ PullStart(c)
       \/ ReadChunk(c)
       \/ ReadDone(c)
       \/ HostRead(c)
  \/ PresenterStart
  \/ DrainTimer
  \/ Deliver
  \/ SettingsLoaded
  \/ SettingsWrite
  \/ MutationObserved

SpecVisibility == Init /\ [][NextVisibility]_vars

\* C25: once the settings read has completed, the document shows no message
\* timestamp while the stored message preference is off, and no sidebar
\* timestamp while the stored sidebar preference is off.
C25_VisibilityHonoured ==
  settingsRead =>
    /\ ~stored.showMessageTimestamps => dom.messages = {}
    /\ ~stored.showSidebarTimestamps => dom.sidebar = {}

====
